---- MODULE Spec2Model ----
(***************************************************************************)
(* Model of cozepy/auth/__init__.py: the Auth strategy family (TokenAuth,  *)
(* JWTAuth with its lazily renewed token cache), the JWT-bearer exchange   *)
(* of JWTOAuthApp, and the authorization-URL builders of OAuthApp and      *)
(* PKCEOAuthApp.                                                           *)
(*                                                                         *)
(* Three specifications share the variables:                               *)
(*   Spec      one Auth instance used by a single caller                   *)
(*   SpecConc  one JWTAuth instance used by several threads                *)
(*   SpecUrl   the URL builders applied to bounded inputs                  *)
(***************************************************************************)
EXTENDS Integers, Sequences, FiniteSets, TLC

VARIABLES
    now,        \* int(time.time()): the wall clock, in seconds
    auth,       \* the Auth instance under use (TokenAuth or JWTAuth), or none yet
    exchanges,  \* every request handed to Requester.request, in order
    headers,    \* the caller-owned header mapping last passed to authentication()
    calls,      \* number of calls made so far
    lastCall,   \* what the last call did and returned
    threads,    \* SpecConc: each thread's position inside JWTAuth.token
    app,        \* SpecUrl: the OAuthApp instance
    urlCall     \* SpecUrl: the last URL-builder call and its result

vars == <<now, auth, exchanges, headers, calls, lastCall, threads, app, urlCall>>

(***************************************************************************)
(* Bounds of the model.                                                    *)
(***************************************************************************)
MaxTime == 2        \* the clock runs from 0 to MaxTime
MaxCalls == 3       \* token() and authentication() calls made by the single caller
NThreads == 2       \* threads sharing the JWTAuth instance

(***************************************************************************)
(* Python values of the types the constructors test with isinstance.       *)
(* bool is a subclass of int in Python, so True passes isinstance(_, int). *)
(***************************************************************************)
PyStr(x) == [ty |-> "str", s |-> x, n |-> 0]
PyInt(k) == [ty |-> "int", s |-> "", n |-> k]
PyFloat(k) == [ty |-> "float", s |-> "", n |-> k]
PyNone == [ty |-> "NoneType", s |-> "", n |-> 0]

IsInstanceStr(x) == x.ty = "str"
IsInstanceInt(x) == x.ty = "int"

(***************************************************************************)
(* OAuthToken: expires_in is an absolute UNIX timestamp.  JWTAuth._token   *)
(* is None until the first successful exchange.                            *)
(***************************************************************************)
NoToken == [present |-> FALSE, access_token |-> "", expires_in |-> 0]
OAuthToken(at, exp) == [present |-> TRUE, access_token |-> at, expires_in |-> exp]

NoAuth == [cls |-> "none", token |-> "", client_id |-> "", ttl |-> 0,
           base_url |-> "", cached |-> NoToken]

NoArgs == [token |-> PyNone, client_id |-> PyNone, private_key |-> PyNone,
           public_key_id |-> PyNone, ttl |-> PyNone, base_url |-> PyNone]

COZE_COM == "https://api.coze.com"

(***************************************************************************)
(* Header mappings: Python dicts, modelled as functions on a subset of the *)
(* header names.                                                           *)
(***************************************************************************)
HeaderKeys == {"Authorization", "Accept"}
\* no entry, another entry only, and an Authorization entry to overwrite
HeaderMaps ==
    {[k \in D |-> "x"] : D \in {{}, {"Accept"}, {"Authorization", "Accept"}}}
EmptyHeaders == [k \in {} |-> ""]

\* headers[key] = value, in place
SetItem(h, key, value) ==
    [k \in DOMAIN h \cup {key} |-> IF k = key THEN value ELSE h[k]]

NoCall == [op |-> "none", err |-> "", issued |-> 0, t0 |-> 0, t1 |-> 0,
           pre |-> NoToken, ret |-> "", retTok |-> NoToken,
           preHeaders |-> EmptyHeaders, args |-> NoArgs]

(***************************************************************************)
(* TokenAuth                                                               *)
(***************************************************************************)
\* the two asserts of TokenAuth.__init__
TokenAuthPre_NoLen(token) == IsInstanceStr(token)
TokenAuthPre(token) == IsInstanceStr(token) /\ Len(token.s) > 0

TokenAuthNew(token) ==
    [cls |-> "TokenAuth", token |-> token.s, client_id |-> "", ttl |-> 0,
     base_url |-> "", cached |-> NoToken]

\* TokenAuth.token_type / JWTAuth.token_type
TokenType(self) == "Bearer"

(***************************************************************************)
(* JWTOAuthApp                                                             *)
(***************************************************************************)
\* _gen_jwt: the payload of the signed assertion (aud and the random jti
\* are carried by no variable of this model)
GenJwt(client_id, ttl, t) ==
    [iss |-> client_id, iat |-> t, exp |-> t + ttl]

\* get_access_token: the request handed to the transport
GetAccessTokenRequest_TtlAsLifetime(self, ttl, t) ==
    [jwt |-> GenJwt(self.client_id, ttl, t),
     url |-> self.base_url \o "/api/permission/oauth2/token",
     duration_seconds |-> ttl,
     grant_type |-> "urn:ietf:params:oauth:grant-type:jwt-bearer"]
GetAccessTokenRequest(self, ttl, t) ==
    [jwt |-> GenJwt(self.client_id, 3600, t),
     url |-> self.base_url \o "/api/permission/oauth2/token",
     duration_seconds |-> ttl,
     grant_type |-> "urn:ietf:params:oauth:grant-type:jwt-bearer"]

(***************************************************************************)
(* JWTAuth                                                                 *)
(***************************************************************************)
\* the asserts of JWTAuth.__init__
JWTAuthPre_NoTtlSign(a) ==
    /\ IsInstanceStr(a.client_id)
    /\ IsInstanceStr(a.private_key)
    /\ IsInstanceStr(a.public_key_id)
    /\ IsInstanceInt(a.ttl)
    /\ IsInstanceStr(a.base_url)
JWTAuthPre(a) ==
    /\ IsInstanceStr(a.client_id)
    /\ IsInstanceStr(a.private_key)
    /\ IsInstanceStr(a.public_key_id)
    /\ IsInstanceInt(a.ttl)
    /\ a.ttl.n > 0
    /\ IsInstanceStr(a.base_url)

JWTAuthNew(a) ==
    [cls |-> "JWTAuth", token |-> "", client_id |-> a.client_id.s,
     ttl |-> a.ttl.n, base_url |-> a.base_url.s, cached |-> NoToken]

\* the test of _generate_token that lets the cached token be returned
CacheValid_Le(tok, t) == tok.present /\ t <= tok.expires_in
CacheValid(tok, t) == tok.present /\ t < tok.expires_in

\* self._token = <the token the exchange returned>
StoreToken_KeepLonger(self, resp) ==
    IF self.cached.present /\ self.cached.expires_in > resp.expires_in
    THEN self ELSE [self EXCEPT !.cached = resp]
StoreToken(self, resp) == [self EXCEPT !.cached = resp]

\* _generate_token, called at time t.  When it goes to the transport, the
\* request either raises (ok = FALSE) or returns the token resp.
\*   self    the instance afterwards
\*   reqs    the requests issued
\*   raised  whether the transport error left the method
\*   tok     the token returned
GenerateToken_ClearOnError(self, t, ok, resp) ==
    IF CacheValid(self.cached, t)
    THEN [self |-> self, reqs |-> <<>>, raised |-> FALSE, tok |-> self.cached]
    ELSE IF ok
    THEN [self |-> StoreToken(self, resp),
          reqs |-> <<GetAccessTokenRequest(self, self.ttl, t)>>,
          raised |-> FALSE, tok |-> StoreToken(self, resp).cached]
    ELSE [self |-> [self EXCEPT !.cached = NoToken],
          reqs |-> <<GetAccessTokenRequest(self, self.ttl, t)>>,
          raised |-> TRUE, tok |-> NoToken]
GenerateToken(self, t, ok, resp) ==
    IF CacheValid(self.cached, t)
    THEN [self |-> self, reqs |-> <<>>, raised |-> FALSE, tok |-> self.cached]
    ELSE IF ok
    THEN [self |-> StoreToken(self, resp),
          reqs |-> <<GetAccessTokenRequest(self, self.ttl, t)>>,
          raised |-> FALSE, tok |-> StoreToken(self, resp).cached]
    ELSE [self |-> self,
          reqs |-> <<GetAccessTokenRequest(self, self.ttl, t)>>,
          raised |-> TRUE, tok |-> NoToken]

(***************************************************************************)
(* Auth.authentication: the header value                                   *)
(***************************************************************************)
AuthorizationValue_NoScheme(token_type, token) == token
AuthorizationValue(token_type, token) == token_type \o " " \o token

\* Auth.authentication(headers): the mapping afterwards.  The header value
\* is computed first, so a token() that raised leaves the mapping untouched.
Authentication(self, h, raised, token) ==
    IF raised THEN h
    ELSE SetItem(h, "Authorization", AuthorizationValue(TokenType(self), token))

(***************************************************************************)
(* Inputs                                                                  *)
(***************************************************************************)
TokenArgs == {PyStr(""), PyStr("T1"), PyStr("T2"), PyInt(7), PyNone}

\* 7200 is the default ttl
TtlArgs == {PyInt(-1), PyInt(0), PyInt(1), PyInt(7200), PyFloat(1), PyStr("7200"), PyNone}

JWTArgs ==
    {[token |-> PyNone, client_id |-> c, private_key |-> p, public_key_id |-> k,
      ttl |-> l, base_url |-> b] :
        c \in {PyStr("c1"), PyNone}, p \in {PyStr("pk"), PyInt(1)},
        k \in {PyStr("k1"), PyNone}, l \in TtlArgs,
        b \in {PyStr(COZE_COM), PyNone}}

\* what the token endpoint may answer: any absolute expiry
ExpiresInValues == 0..(MaxTime + 1)
\* how long the blocking exchange may take
Durations == 0..1

\* the n-th answer of the token endpoint
Response(n, exp) == OAuthToken("at" \o ToString(n), exp)

(***************************************************************************)
(* Spec: one Auth instance, one caller                                     *)
(***************************************************************************)
Init ==
    /\ now = 0
    /\ auth = NoAuth
    /\ exchanges = <<>>
    /\ headers = EmptyHeaders
    /\ calls = 0
    /\ lastCall = NoCall
    /\ threads = <<>>
    /\ app = 0
    /\ urlCall = 0

\* TokenAuth(token)
TokenAuthInit(token) ==
    /\ auth.cls = "none"
    /\ auth' = IF TokenAuthPre(token) THEN TokenAuthNew(token) ELSE auth
    /\ lastCall' = [NoCall EXCEPT !.op = "TokenAuth.__init__",
                       !.err = IF TokenAuthPre(token) THEN "" ELSE "AssertionError",
                       !.t0 = now, !.t1 = now, !.args = [NoArgs EXCEPT !.token = token]]
    /\ UNCHANGED <<now, exchanges, headers, calls, threads, app, urlCall>>

\* JWTAuth(client_id, private_key, public_key_id, ttl, base_url)
JWTAuthInit(a) ==
    /\ auth.cls = "none"
    /\ auth' = IF JWTAuthPre(a) THEN JWTAuthNew(a) ELSE auth
    /\ lastCall' = [NoCall EXCEPT !.op = "JWTAuth.__init__",
                       !.err = IF JWTAuthPre(a) THEN "" ELSE "AssertionError",
                       !.t0 = now, !.t1 = now, !.args = a]
    /\ UNCHANGED <<now, exchanges, headers, calls, threads, app, urlCall>>

\* TokenAuth.token
TokenAuthToken ==
    /\ auth.cls = "TokenAuth"
    /\ calls < MaxCalls
    /\ calls' = calls + 1
    /\ lastCall' = [NoCall EXCEPT !.op = "TokenAuth.token",
                       !.t0 = now, !.t1 = now, !.ret = auth.token,
                       !.preHeaders = headers]
    /\ UNCHANGED <<now, auth, exchanges, headers, threads, app, urlCall>>

\* TokenAuth.authentication(h)
TokenAuthAuthentication(h) ==
    /\ auth.cls = "TokenAuth"
    /\ calls < MaxCalls
    /\ calls' = calls + 1
    /\ headers' = Authentication(auth, h, FALSE, auth.token)
    /\ lastCall' = [NoCall EXCEPT !.op = "TokenAuth.authentication",
                       !.t0 = now, !.t1 = now, !.ret = auth.token,
                       !.preHeaders = h]
    /\ UNCHANGED <<now, auth, exchanges, threads, app, urlCall>>

\* JWTAuth.token: _generate_token, then .access_token of what it returned
JWTAuthToken(ok, exp, dur) ==
    /\ auth.cls = "JWTAuth"
    /\ calls < MaxCalls
    /\ LET g == GenerateToken(auth, now, ok, Response(Len(exchanges) + 1, exp))
           d == IF g.reqs = <<>> THEN 0 ELSE dur
       IN /\ now + d <= MaxTime
          /\ calls' = calls + 1
          /\ auth' = g.self
          /\ exchanges' = exchanges \o [i \in 1..Len(g.reqs) |->
                              [req |-> g.reqs[i], ok |-> ok]]
          /\ now' = now + d
          /\ lastCall' = [NoCall EXCEPT !.op = "JWTAuth.token",
                             !.err = IF g.raised THEN "TransportError" ELSE "",
                             !.issued = Len(exchanges') - Len(exchanges),
                             !.t0 = now, !.t1 = now + d, !.pre = auth.cached,
                             !.ret = g.tok.access_token, !.retTok = g.tok,
                             !.preHeaders = headers]
    /\ UNCHANGED <<headers, threads, app, urlCall>>

\* JWTAuth.authentication(h)
JWTAuthAuthentication(h, ok, exp, dur) ==
    /\ auth.cls = "JWTAuth"
    /\ calls < MaxCalls
    /\ LET g == GenerateToken(auth, now, ok, Response(Len(exchanges) + 1, exp))
           d == IF g.reqs = <<>> THEN 0 ELSE dur
       IN /\ now + d <= MaxTime
          /\ calls' = calls + 1
          /\ auth' = g.self
          /\ exchanges' = exchanges \o [i \in 1..Len(g.reqs) |->
                              [req |-> g.reqs[i], ok |-> ok]]
          /\ now' = now + d
          /\ headers' = Authentication(auth, h, g.raised, g.tok.access_token)
          /\ lastCall' = [NoCall EXCEPT !.op = "JWTAuth.authentication",
                             !.err = IF g.raised THEN "TransportError" ELSE "",
                             !.issued = Len(exchanges') - Len(exchanges),
                             !.t0 = now, !.t1 = now + d, !.pre = auth.cached,
                             !.ret = g.tok.access_token, !.retTok = g.tok,
                             !.preHeaders = h]
    /\ UNCHANGED <<threads, app, urlCall>>

\* the clock advances between calls
Tick ==
    /\ now < MaxTime
    /\ now' = now + 1
    /\ UNCHANGED <<auth, exchanges, headers, calls, lastCall, threads, app, urlCall>>

\* what the transport may do within a call made at time t with c cached: not
\* called at all, a failure after some time, or an answer after some time
TransportOutcomes(c, t) ==
    IF CacheValid(c, t) THEN {[ok |-> TRUE, exp |-> 0, dur |-> 0]}
    ELSE {[ok |-> FALSE, exp |-> 0, dur |-> d] : d \in Durations}
         \cup {[ok |-> TRUE, exp |-> e, dur |-> d] : e \in ExpiresInValues, d \in Durations}

Next ==
    \/ \E token \in TokenArgs : TokenAuthInit(token)
    \/ \E a \in JWTArgs : JWTAuthInit(a)
    \/ TokenAuthToken
    \/ \E h \in HeaderMaps : TokenAuthAuthentication(h)
    \/ \E o \in TransportOutcomes(auth.cached, now) : JWTAuthToken(o.ok, o.exp, o.dur)
    \/ \E h \in HeaderMaps, o \in TransportOutcomes(auth.cached, now) :
           JWTAuthAuthentication(h, o.ok, o.exp, o.dur)
    \/ Tick

Spec == Init /\ [][Next]_vars

(***************************************************************************)
(* Properties of Spec                                                      *)
(***************************************************************************)
JWTOps == {"JWTAuth.token", "JWTAuth.authentication"}

\* the last request handed to the transport
LastExchange == exchanges[Len(exchanges)]

\* C1: a token() call of a JWTAuth used by one caller issues exactly one
\* exchange when no token is cached or when now < cached.expires_in is false
\* (so also when now equals expires_in), and none otherwise.
C1_OneExchangeWhenEmptyOrExpired ==
    lastCall.op \in JWTOps =>
        lastCall.issued =
            IF ~lastCall.pre.present \/ ~(lastCall.t0 < lastCall.pre.expires_in)
            THEN 1 ELSE 0

\* a call made exactly at the cached expiry went to the token endpoint again
C1_Witness ==
    /\ lastCall.op = "JWTAuth.token"
    /\ lastCall.pre.present
    /\ lastCall.t0 = lastCall.pre.expires_in
    /\ lastCall.issued = 1
    /\ Len(exchanges) = 2

\* C2 as stated: every token() that returns hands out a token whose expires_in
\* is strictly greater than the time of return.
C2_NeverPastExpiry ==
    (lastCall.op \in JWTOps /\ lastCall.err = "") =>
        lastCall.retTok.expires_in > lastCall.t1

\* C2 as amended: a token() that returns without an exchange hands out the
\* cached token, whose expires_in is strictly greater than the time of
\* return; a token() that exchanged hands out the token just received, with
\* whatever expires_in the endpoint gave it.
C2_CachedTokenNotExpired ==
    (lastCall.op \in JWTOps /\ lastCall.err = "") =>
        /\ lastCall.issued = 0 =>
              /\ lastCall.retTok = lastCall.pre
              /\ lastCall.retTok.expires_in > lastCall.t1
        /\ lastCall.issued = 1 =>
              /\ lastCall.retTok = auth.cached
              /\ lastCall.ret = "at" \o ToString(Len(exchanges))

\* a cached token was returned one second before its expiry
C2_Witness ==
    /\ lastCall.op = "JWTAuth.token"
    /\ lastCall.err = ""
    /\ lastCall.issued = 0
    /\ lastCall.retTok.expires_in = lastCall.t1 + 1

\* C3: after any authentication(headers) of a TokenAuth built with T,
\* headers["Authorization"] is "Bearer T", every other entry is as it was, the
\* stored token is still T, and nothing was sent to the token endpoint.
C3_StateOk ==
    /\ (lastCall.op = "TokenAuth.__init__" /\ lastCall.err = "") =>
           auth.token = lastCall.args.token.s
    /\ auth.cls = "TokenAuth" => exchanges = <<>>
    /\ lastCall.op = "TokenAuth.authentication" =>
           /\ DOMAIN headers = DOMAIN lastCall.preHeaders \cup {"Authorization"}
           /\ headers["Authorization"] = "Bearer " \o auth.token
           /\ \A k \in DOMAIN lastCall.preHeaders \ {"Authorization"} :
                  headers[k] = lastCall.preHeaders[k]
C3_TokenAuthHeader ==
    /\ []C3_StateOk
    /\ [][auth.cls = "TokenAuth" => auth' = auth]_vars

\* a third call, on a mapping that already had both entries
C3_Witness ==
    /\ lastCall.op = "TokenAuth.authentication"
    /\ calls = 3
    /\ DOMAIN lastCall.preHeaders = {"Authorization", "Accept"}
    /\ auth.token = "T2"

\* C4: constructing TokenAuth with an empty or non-string token fails, and so
\* does constructing JWTAuth with a non-positive or non-integer ttl or a
\* non-string client_id, private_key, public_key_id or base_url; no instance
\* exists afterwards and nothing was sent to the token endpoint.
C4_TokenViolation(token) == token.ty # "str" \/ token.s = ""
C4_JWTViolation(a) ==
    \/ a.ttl.ty # "int"
    \/ a.ttl.n <= 0
    \/ \E x \in {a.client_id, a.private_key, a.public_key_id, a.base_url} :
           x.ty # "str"
C4_PreconditionsFailConstruction ==
    /\ (lastCall.op = "TokenAuth.__init__" /\ C4_TokenViolation(lastCall.args.token)) =>
           /\ lastCall.err = "AssertionError"
           /\ auth = NoAuth
           /\ exchanges = <<>>
    /\ (lastCall.op = "JWTAuth.__init__" /\ C4_JWTViolation(lastCall.args)) =>
           /\ lastCall.err = "AssertionError"
           /\ auth = NoAuth
           /\ exchanges = <<>>

\* JWTAuth(..., ttl = 0, ...) with every other argument well typed was refused
C4_Witness ==
    /\ lastCall.op = "JWTAuth.__init__"
    /\ lastCall.args.ttl = PyInt(0)
    /\ \A x \in {lastCall.args.client_id, lastCall.args.private_key,
                 lastCall.args.public_key_id, lastCall.args.base_url} :
           x.ty = "str"
    /\ lastCall.err = "AssertionError"

\* C8: every assertion built by get_access_token has exp = iat + 3600 whatever
\* the ttl; the ttl is carried as duration_seconds of the request body only,
\* and it is the ttl the JWTAuth was constructed with.
C8_StateOk ==
    /\ (lastCall.op = "JWTAuth.__init__" /\ lastCall.err = "") =>
           auth.ttl = lastCall.args.ttl.n
    /\ \A i \in 1..Len(exchanges) :
           /\ exchanges[i].req.jwt.exp = exchanges[i].req.jwt.iat + 3600
           /\ exchanges[i].req.duration_seconds = auth.ttl
C8_AssertionLifetimeFixed ==
    /\ []C8_StateOk
    /\ [][auth.cls = "JWTAuth" => auth'.ttl = auth.ttl]_vars

\* two exchanges of an instance built with a ttl other than the default
C8_Witness ==
    /\ auth.cls = "JWTAuth"
    /\ auth.ttl = 1
    /\ Len(exchanges) = 2
    /\ exchanges[2].req.jwt.iat > exchanges[1].req.jwt.iat

\* C10: when the exchange fails inside token() or authentication() of a
\* JWTAuth, the error reaches the caller after exactly one attempt, the cache
\* is what it was before the call, the header mapping is not written, and the
\* next call attempts one exchange again; a call whose exchange succeeds, or
\* that needs none, raises nothing.
C10_StateOk ==
    lastCall.op \in JWTOps =>
        /\ lastCall.err = "TransportError" =>
              /\ lastCall.issued = 1
              /\ ~LastExchange.ok
              /\ auth.cached = lastCall.pre
              /\ headers = lastCall.preHeaders
              /\ lastCall.ret = ""
        /\ lastCall.err = "" =>
              \/ lastCall.issued = 0
              \/ lastCall.issued = 1 /\ LastExchange.ok
        /\ lastCall.err \in {"", "TransportError"}
C10_FailedExchangePropagates ==
    /\ []C10_StateOk
    /\ [][(lastCall.err = "TransportError" /\ calls' = calls + 1) =>
              lastCall'.issued = 1]_vars

\* authentication() failed while an expired token was cached, on a mapping
\* with entries of its own
C10_Witness ==
    /\ lastCall.op = "JWTAuth.authentication"
    /\ lastCall.err = "TransportError"
    /\ lastCall.pre.present
    /\ auth.cached = lastCall.pre
    /\ DOMAIN headers = {"Accept"}

(***************************************************************************)
(* SpecConc: several threads call token() on one JWTAuth instance.  There  *)
(* is no lock in _generate_token, so the test of the cache, the exchange,  *)
(* the write of self._token and the read of self._token for the return     *)
(* value are separate steps of each thread.  Each thread calls once.       *)
(***************************************************************************)
Threads == 1..NThreads

\* the token endpoint answers a token that is expired on arrival, or one that
\* lives for two seconds
ConcLifetimes == {0, 2}

IdleThread == [pc |-> "idle", path |-> "", seen |-> NoToken, seenAt |-> 0,
               own |-> NoToken, ok |-> FALSE, ret |-> "", err |-> ""]

\* an instance that has been in use: nothing cached yet, or a token of an
\* earlier exchange
InitConc ==
    /\ now = 0
    /\ \E c \in {NoToken, OAuthToken("at0", 1)} :
           auth = [JWTAuthNew([NoArgs EXCEPT !.client_id = PyStr("c1"),
                                             !.private_key = PyStr("pk"),
                                             !.public_key_id = PyStr("k1"),
                                             !.ttl = PyInt(7200),
                                             !.base_url = PyStr(COZE_COM)])
                   EXCEPT !.cached = c]
    /\ exchanges = <<>>
    /\ headers = EmptyHeaders
    /\ calls = 0
    /\ lastCall = NoCall
    /\ threads = [i \in Threads |-> IdleThread]
    /\ app = 0
    /\ urlCall = 0

\* thread i enters token(): the test of _generate_token and, when it fails,
\* the request of get_access_token, whose answer (failure, or token resp) is
\* still to come
ConcCheck(i, ok, exp) ==
    /\ threads[i].pc = "idle"
    /\ IF CacheValid(auth.cached, now)
       THEN /\ threads' = [threads EXCEPT ![i] =
                   [IdleThread EXCEPT !.pc = "hit", !.path = "hit",
                                      !.seen = auth.cached, !.seenAt = now]]
            /\ UNCHANGED exchanges
       ELSE /\ threads' = [threads EXCEPT ![i] =
                   [IdleThread EXCEPT !.pc = "wait", !.path = "miss",
                                      !.seen = auth.cached, !.seenAt = now,
                                      !.ok = ok,
                                      !.own = IF ok THEN Response(Len(exchanges) + 1, exp)
                                              ELSE NoToken]]
            /\ exchanges' = Append(exchanges,
                   [req |-> GetAccessTokenRequest(auth, auth.ttl, now), ok |-> ok])
    /\ UNCHANGED <<now, auth, headers, calls, lastCall, app, urlCall>>

\* return self._token, then .access_token, after a test that passed
ConcReturnCached(i) ==
    /\ threads[i].pc = "hit"
    /\ threads' = [threads EXCEPT ![i].pc = "done",
                                  ![i].ret = auth.cached.access_token]
    /\ UNCHANGED <<now, auth, exchanges, headers, calls, lastCall, app, urlCall>>

\* the request returns: self._token = <answer>, or the transport error
\* leaves token()
ConcReceive(i) ==
    /\ threads[i].pc = "wait"
    /\ IF threads[i].ok
       THEN /\ auth' = StoreToken(auth, threads[i].own)
            /\ threads' = [threads EXCEPT ![i].pc = "stored"]
            /\ lastCall' = [NoCall EXCEPT !.op = "store",
                               !.retTok = threads[i].own]
       ELSE /\ threads' = [threads EXCEPT ![i].pc = "done",
                                         ![i].err = "TransportError"]
            /\ UNCHANGED <<auth, lastCall>>
    /\ UNCHANGED <<now, exchanges, headers, calls, app, urlCall>>

\* return self._token, then .access_token, after the write
ConcReturnStored(i) ==
    /\ threads[i].pc = "stored"
    /\ threads' = [threads EXCEPT ![i].pc = "done",
                                  ![i].ret = auth.cached.access_token]
    /\ UNCHANGED <<now, auth, exchanges, headers, calls, lastCall, app, urlCall>>

NextConc ==
    \/ \E i \in Threads, ok \in BOOLEAN, life \in ConcLifetimes :
           ConcCheck(i, ok, now + life)
    \/ \E i \in Threads : ConcReturnCached(i)
    \/ \E i \in Threads : ConcReceive(i)
    \/ \E i \in Threads : ConcReturnStored(i)
    \/ Tick

SpecConc == InitConc /\ [][NextConc]_vars

\* the threads that went to the token endpoint and came back with a token
Exchanged(i) ==
    /\ threads[i].pc = "done"
    /\ threads[i].path = "miss"
    /\ threads[i].err = ""

\* C9 as stated: each caller returns the access_token of the token its own
\* exchange produced.
C9_ReturnsOwnToken ==
    \A i \in Threads : Exchanged(i) => threads[i].ret = threads[i].own.access_token

\* C9 as amended: a thread goes to the token endpoint when the cache it tests
\* is empty or expired, whatever requests of other threads are in flight;
\* the cached token is the one written last; a caller that exchanged returns
\* the access_token of the token its own exchange produced or of the token
\* another thread's exchange wrote after it.
C9_RacingRefresh ==
    /\ \A i \in Threads :
           threads[i].path = "miss" <=>
               (threads[i].pc # "idle" /\
                (~threads[i].seen.present \/ ~(threads[i].seenAt < threads[i].seen.expires_in)))
    /\ lastCall.op = "store" => auth.cached = lastCall.retTok
    /\ \A i \in Threads :
           Exchanged(i) =>
               \/ threads[i].ret = threads[i].own.access_token
               \/ \E k \in 1..Len(exchanges) :
                      exchanges[k].ok /\ threads[i].ret = "at" \o ToString(k)

\* two threads tested the same expired cache at the same time, both went to
\* the token endpoint, and the first to write returned the token of the second
C9_Witness ==
    \E i, j \in Threads :
        /\ i # j
        /\ Exchanged(i) /\ Exchanged(j)
        /\ threads[i].seen = threads[j].seen
        /\ threads[i].seen.present
        /\ threads[i].seenAt = threads[j].seenAt
        /\ Len(exchanges) = 2
        /\ auth.cached = threads[j].own
        /\ threads[i].ret = threads[j].own.access_token
        /\ threads[i].ret # threads[i].own.access_token

(***************************************************************************)
(* SpecUrl: the URL builders of OAuthApp and PKCEOAuthApp, each applied   *)
(* once to an instance and arguments drawn from bounded sets.  Strings are *)
(* sequences of one-character strings, so that str.replace and quote_plus  *)
(* work on characters as they do in Python.                                *)
(***************************************************************************)
\* cozepy.config
COZE_COM_BASE_URL == <<"h", "t", "t", "p", "s", ":", "/", "/", "a", "p", "i", ".", "c", "o", "z", "e", ".", "c", "o", "m">>
COZE_CN_BASE_URL == <<"h", "t", "t", "p", "s", ":", "/", "/", "a", "p", "i", ".", "c", "o", "z", "e", ".", "c", "n">>

\* an optional str argument: None, or a str (possibly empty)
None == [some |-> FALSE, s |-> <<>>]
Some(x) == [some |-> TRUE, s |-> x]
\* Python truth value of an optional str: None and "" are false
Truthy(x) == x.some /\ x.s # <<>>

\* str.replace(old, new) for a non-empty old: every non-overlapping
\* occurrence, left to right
RECURSIVE Replace(_, _, _)
Replace(s, old, new) ==
    IF Len(s) < Len(old) THEN s
    ELSE IF SubSeq(s, 1, Len(old)) = old
    THEN new \o Replace(SubSeq(s, Len(old) + 1, Len(s)), old, new)
    ELSE <<Head(s)>> \o Replace(Tail(s), old, new)

\* urllib.parse.quote_plus: letters, digits and _.-~ stay, a space becomes +,
\* any other character becomes % and the two hex digits of its code
Unreserved ==
    {"a", "b", "c", "d", "e", "f", "g", "h", "i", "j", "k", "l", "m", "n", "o",
     "p", "q", "r", "s", "t", "u", "v", "w", "x", "y", "z",
     "A", "B", "C", "D", "E", "F", "G", "H", "I", "J", "K", "L", "M", "N", "O",
     "P", "Q", "R", "S", "T", "U", "V", "W", "X", "Y", "Z",
     "0", "1", "2", "3", "4", "5", "6", "7", "8", "9", "_", ".", "-", "~"}
HexCode(c) ==
    CASE c = "/" -> <<"2", "F">>
      [] c = ":" -> <<"3", "A">>
      [] c = "&" -> <<"2", "6">>
      [] c = "=" -> <<"3", "D">>
      [] c = "+" -> <<"2", "B">>
      [] c = "%" -> <<"2", "5">>
      [] c = "?" -> <<"3", "F">>
RECURSIVE QuotePlus(_)
QuotePlus(s) ==
    IF s = <<>> THEN <<>>
    ELSE (IF Head(s) \in Unreserved THEN <<Head(s)>>
          ELSE IF Head(s) = " " THEN <<"+">>
          ELSE <<"%">> \o HexCode(Head(s))) \o QuotePlus(Tail(s))

\* "&".join(parts)
RECURSIVE Join(_, _)
Join(sep, parts) ==
    IF parts = <<>> THEN <<>>
    ELSE IF Len(parts) = 1 THEN parts[1]
    ELSE parts[1] \o sep \o Join(sep, Tail(parts))

\* cozepy.util.gen_s256_code_challenge: base64url(sha256(code_verifier))
\* without padding, tabulated for the verifiers of CodeVerifiers
GenS256CodeChallenge(v) ==
    CASE v = <<>> -> <<"4", "7", "D", "E", "Q", "p", "j", "8", "H", "B", "S", "a", "-", "_", "T", "I", "m", "W", "-", "5", "J", "C", "e", "u", "Q", "e", "R", "k", "m", "5", "N", "M", "p", "J", "W", "Z", "G", "3", "h", "S", "u", "F", "U">>
      [] v = <<"a">> -> <<"y", "p", "e", "B", "E", "s", "o", "b", "v", "c", "r", "6", "w", "j", "G", "z", "m", "i", "P", "c", "T", "a", "e", "G", "7", "_", "g", "U", "f", "E", "5", "y", "u", "Y", "B", "3", "h", "a", "_", "u", "S", "L", "s">>
      [] v = <<"a", " ", "b">> -> <<"y", "G", "h", "6", "C", "K", "p", "d", "b", "t", "I", "E", "Q", "y", "j", "6", "a", "m", "l", "6", "u", "O", "l", "t", "w", "0", "K", "R", "6", "M", "I", "D", "S", "u", "j", "D", "j", "m", "_", "M", "b", "W", "U">>

\* OAuthApp._get_www_base_url
GetWwwBaseUrl_AlwaysReplace(self) ==
    IF self.www_base_url # <<>> THEN self.www_base_url
    ELSE Replace(self.base_url, <<"a", "p", "i">>, <<"w", "w", "w">>)
GetWwwBaseUrl(self) ==
    IF self.www_base_url # <<>> THEN self.www_base_url
    ELSE IF self.base_url \in {COZE_CN_BASE_URL, COZE_COM_BASE_URL}
    THEN Replace(self.base_url, <<"a", "p", "i">>, <<"w", "w", "w">>)
    ELSE self.base_url

K_response_type == <<"r", "e", "s", "p", "o", "n", "s", "e", "_", "t", "y", "p", "e">>
K_client_id == <<"c", "l", "i", "e", "n", "t", "_", "i", "d">>
K_redirect_uri == <<"r", "e", "d", "i", "r", "e", "c", "t", "_", "u", "r", "i">>
K_state == <<"s", "t", "a", "t", "e">>
K_code_challenge == <<"c", "o", "d", "e", "_", "c", "h", "a", "l", "l", "e", "n", "g", "e">>
K_code_challenge_method == <<"c", "o", "d", "e", "_", "c", "h", "a", "l", "l", "e", "n", "g", "e", "_", "m", "e", "t", "h", "o", "d">>
V_code == <<"c", "o", "d", "e">>
V_plain == <<"p", "l", "a", "i", "n">>
V_S256 == <<"S", "2", "5", "6">>
P_authorize == <<"/", "a", "p", "i", "/", "p", "e", "r", "m", "i", "s", "s", "i", "o", "n", "/", "o", "a", "u", "t", "h", "2", "/", "a", "u", "t", "h", "o", "r", "i", "z", "e">>
P_workspace_id == <<"/", "a", "p", "i", "/", "p", "e", "r", "m", "i", "s", "s", "i", "o", "n", "/", "o", "a", "u", "t", "h", "2", "/", "w", "o", "r", "k", "s", "p", "a", "c", "e", "_", "i", "d", "/">>
P_slash_authorize == <<"/", "a", "u", "t", "h", "o", "r", "i", "z", "e">>

\* OAuthApp._get_oauth_url.  quote_plus(None) raises TypeError, so a
\* parameter that is None leaves the method with an error and no URL.
GetOauthUrl(self, redirect_uri, state, code_challenge, code_challenge_method, workspace_id) ==
    LET params ==
            <<<<K_response_type, Some(V_code)>>,
              <<K_client_id, Some(self.client_id)>>,
              <<K_redirect_uri, Some(redirect_uri)>>,
              <<K_state, Some(state)>> >>
            \o (IF Truthy(code_challenge)
                THEN <<<<K_code_challenge, code_challenge>>,
                       <<K_code_challenge_method, code_challenge_method>> >>
                ELSE <<>>)
        uri == IF Truthy(workspace_id)
               THEN GetWwwBaseUrl(self) \o P_workspace_id \o workspace_id.s \o P_slash_authorize
               ELSE GetWwwBaseUrl(self) \o P_authorize
    IN IF \E i \in 1..Len(params) : ~params[i][2].some
       THEN [raised |-> TRUE, url |-> <<>>]
       ELSE [raised |-> FALSE,
             url |-> uri \o <<"?">> \o
                     Join(<<"&">>, [i \in 1..Len(params) |->
                                       params[i][1] \o <<"=">> \o QuotePlus(params[i][2].s)])]

\* PKCEOAuthApp.get_oauth_url
PkceGetOauthUrl(self, redirect_uri, state, code_verifier, code_challenge_method, workspace_id) ==
    GetOauthUrl(self, redirect_uri, state,
                IF code_challenge_method = Some(V_plain)
                THEN Some(code_verifier)
                ELSE Some(GenS256CodeChallenge(code_verifier)),
                code_challenge_method, workspace_id)

(***************************************************************************)
(* Inputs of SpecUrl                                                       *)
(***************************************************************************)
MaxStrLen == 2      \* length of the redirect_uri strings tried

StrsUpTo(alphabet, n) == UNION {[1..k -> alphabet] : k \in 0..n}

\* the two fixed hosts, a host that contains "api" too, and one that does not
BaseUrls == {COZE_COM_BASE_URL, COZE_CN_BASE_URL, <<"h", "t", "t", "p", "s", ":", "/", "/", "a", "p", "i", ".", "e", "x", "a", "m", "p", "l", "e", ".", "c", "o", "m", "/", "a", "p", "i">>, <<"h", "t", "t", "p", ":", "/", "/", "l", "o", "c", "a", "l", "h", "o", "s", "t">>}
WwwBaseUrls == {<<>>, <<"h", "t", "t", "p", "s", ":", "/", "/", "w", ".", "x">>}
ClientIds == {<<"c", "1">>, <<"c", " ", "&">>}
RedirectUris == StrsUpTo({"r", " ", "/"}, MaxStrLen)
States == {<<>>, <<"s", "=", "1">>}
CodeChallenges == {None, Some(<<>>), Some(<<"a", "+", "b">>)}
CodeChallengeMethods == {None, Some(V_plain), Some(V_S256)}
CodeVerifiers == {<<>>, <<"a">>, <<"a", " ", "b">>}
WorkspaceIds == {None, Some(<<>>), Some(<<"w", "7">>)}

NoUrlCall == [op |-> "none", redirect_uri |-> <<>>, state |-> <<>>,
              code_challenge |-> None, code_challenge_method |-> None,
              code_verifier |-> <<>>, workspace_id |-> None,
              raised |-> FALSE, res |-> <<>>]

\* OAuthApp.__init__ / PKCEOAuthApp.__init__
OAuthAppNew(client_id, base_url, www_base_url) ==
    [client_id |-> client_id, base_url |-> base_url, www_base_url |-> www_base_url]

InitUrl ==
    /\ now = 0
    /\ auth = NoAuth
    /\ exchanges = <<>>
    /\ headers = EmptyHeaders
    /\ calls = 0
    /\ lastCall = NoCall
    /\ threads = <<>>
    /\ \E c \in ClientIds, b \in BaseUrls, w \in WwwBaseUrls :
           app = OAuthAppNew(c, b, w)
    /\ urlCall = NoUrlCall

CallGetWwwBaseUrl ==
    /\ urlCall.op = "none"
    /\ urlCall' = [NoUrlCall EXCEPT !.op = "_get_www_base_url",
                                    !.res = GetWwwBaseUrl(app)]
    /\ UNCHANGED <<now, auth, exchanges, headers, calls, lastCall, threads, app>>

CallGetOauthUrl(redirect_uri, state, code_challenge, code_challenge_method, workspace_id) ==
    /\ urlCall.op = "none"
    /\ LET r == GetOauthUrl(app, redirect_uri, state, code_challenge,
                            code_challenge_method, workspace_id)
       IN urlCall' = [NoUrlCall EXCEPT !.op = "_get_oauth_url",
                         !.redirect_uri = redirect_uri, !.state = state,
                         !.code_challenge = code_challenge,
                         !.code_challenge_method = code_challenge_method,
                         !.workspace_id = workspace_id,
                         !.raised = r.raised, !.res = r.url]
    /\ UNCHANGED <<now, auth, exchanges, headers, calls, lastCall, threads, app>>

CallPkceGetOauthUrl(redirect_uri, state, code_verifier, code_challenge_method, workspace_id) ==
    /\ urlCall.op = "none"
    /\ LET r == PkceGetOauthUrl(app, redirect_uri, state, code_verifier,
                                code_challenge_method, workspace_id)
       IN urlCall' = [NoUrlCall EXCEPT !.op = "get_oauth_url",
                         !.redirect_uri = redirect_uri, !.state = state,
                         !.code_verifier = code_verifier,
                         !.code_challenge_method = code_challenge_method,
                         !.workspace_id = workspace_id,
                         !.raised = r.raised, !.res = r.url]
    /\ UNCHANGED <<now, auth, exchanges, headers, calls, lastCall, threads, app>>

NextUrl ==
    \/ CallGetWwwBaseUrl
    \/ \E r \in RedirectUris, st \in States, cc \in CodeChallenges,
          m \in CodeChallengeMethods, w \in WorkspaceIds :
           CallGetOauthUrl(r, st, cc, m, w)
    \/ \E r \in RedirectUris, st \in States, v \in CodeVerifiers,
          m \in {Some(V_plain), Some(V_S256)}, w \in WorkspaceIds :
           CallPkceGetOauthUrl(r, st, v, m, w)

SpecUrl == InitUrl /\ [][NextUrl]_vars

(***************************************************************************)
(* Reading a URL back: its path, and the decoded value of a query          *)
(* parameter.                                                              *)
(***************************************************************************)
\* index of the first c in s, 0 when there is none
IndexOf(s, c) ==
    IF \E i \in 1..Len(s) : s[i] = c
    THEN CHOOSE i \in 1..Len(s) : s[i] = c /\ \A j \in 1..(i - 1) : s[j] # c
    ELSE 0

RECURSIVE Split(_, _)
Split(s, c) ==
    IF IndexOf(s, c) = 0 THEN <<s>>
    ELSE <<SubSeq(s, 1, IndexOf(s, c) - 1)>>
         \o Split(SubSeq(s, IndexOf(s, c) + 1, Len(s)), c)

Escaped == {"/", ":", "&", "=", "+", "%", "?"}

RECURSIVE UnquotePlus(_)
UnquotePlus(s) ==
    IF s = <<>> THEN <<>>
    ELSE IF Head(s) = "+" THEN <<" ">> \o UnquotePlus(Tail(s))
    ELSE IF Head(s) = "%" /\ Len(s) >= 3
    THEN <<CHOOSE c \in Escaped : HexCode(c) = SubSeq(s, 2, 3)>>
         \o UnquotePlus(SubSeq(s, 4, Len(s)))
    ELSE <<Head(s)>> \o UnquotePlus(Tail(s))

UrlPath(url) == SubSeq(url, 1, IndexOf(url, "?") - 1)
UrlQuery(url) == SubSeq(url, IndexOf(url, "?") + 1, Len(url))
\* the key=value parts of the query, each as <<key, raw value>>
UrlPairs(url) ==
    LET parts == Split(UrlQuery(url), "&")
    IN [i \in 1..Len(parts) |->
           <<SubSeq(parts[i], 1, IndexOf(parts[i], "=") - 1),
             SubSeq(parts[i], IndexOf(parts[i], "=") + 1, Len(parts[i]))>>]
\* the decoded value of parameter key, None when the query has no such key
UrlParam(url, key) ==
    LET pairs == UrlPairs(url)
    IN IF \E i \in 1..Len(pairs) : pairs[i][1] = key
       THEN Some(UnquotePlus(pairs[(CHOOSE i \in 1..Len(pairs) : pairs[i][1] = key)][2]))
       ELSE None
\* every raw value of the query is in percent-encoded form
UrlValuesEncoded(url) ==
    \A i \in 1..Len(UrlPairs(url)) :
        /\ \A j \in 1..Len(UrlPairs(url)[i][2]) :
               UrlPairs(url)[i][2][j] \in Unreserved \cup {"+", "%"}
        /\ UrlPairs(url)[i][2] = QuotePlus(UnquotePlus(UrlPairs(url)[i][2]))

(***************************************************************************)
(* Properties of SpecUrl                                                   *)
(***************************************************************************)
\* C5: an explicit non-empty www_base_url is used as is; otherwise the two
\* fixed hosts give their www host ("api" replaced by "www"), and any other
\* base_url is returned unchanged, even if it contains "api".
C5_WwwBaseUrlDerivation ==
    urlCall.op = "_get_www_base_url" =>
        urlCall.res =
            IF app.www_base_url # <<>> THEN app.www_base_url
            ELSE IF app.base_url = COZE_COM_BASE_URL THEN <<"h", "t", "t", "p", "s", ":", "/", "/", "w", "w", "w", ".", "c", "o", "z", "e", ".", "c", "o", "m">>
            ELSE IF app.base_url = COZE_CN_BASE_URL THEN <<"h", "t", "t", "p", "s", ":", "/", "/", "w", "w", "w", ".", "c", "o", "z", "e", ".", "c", "n">>
            ELSE app.base_url

\* a base_url that contains "api" but is none of the two hosts came back
\* unchanged
C5_Witness ==
    /\ urlCall.op = "_get_www_base_url"
    /\ app.www_base_url = <<>>
    /\ app.base_url = <<"h", "t", "t", "p", "s", ":", "/", "/", "a", "p", "i", ".", "e", "x", "a", "m", "p", "l", "e", ".", "c", "o", "m", "/", "a", "p", "i">>
    /\ urlCall.res = app.base_url

\* C6: for every input _get_oauth_url gives a URL; its path is the
\* workspace-scoped one when a workspace_id is provided and the plain one
\* otherwise; its query carries response_type=code, client_id, redirect_uri
\* and state, and code_challenge with code_challenge_method exactly when a
\* code_challenge is given; every value is percent-encoded.
C6_AuthorizationUrl ==
    urlCall.op = "_get_oauth_url" =>
        /\ ~urlCall.raised
        /\ UrlPath(urlCall.res) =
               IF urlCall.workspace_id.some
               THEN GetWwwBaseUrl(app) \o P_workspace_id \o urlCall.workspace_id.s
                    \o P_slash_authorize
               ELSE GetWwwBaseUrl(app) \o P_authorize
        /\ UrlParam(urlCall.res, K_response_type) = Some(V_code)
        /\ UrlParam(urlCall.res, K_client_id) = Some(app.client_id)
        /\ UrlParam(urlCall.res, K_redirect_uri) = Some(urlCall.redirect_uri)
        /\ UrlParam(urlCall.res, K_state) = Some(urlCall.state)
        /\ UrlParam(urlCall.res, K_code_challenge) = urlCall.code_challenge
        /\ UrlParam(urlCall.res, K_code_challenge_method).some = urlCall.code_challenge.some
        /\ urlCall.code_challenge_method.some =>
               UrlParam(urlCall.res, K_code_challenge_method) \in
                   {None, urlCall.code_challenge_method}
        /\ UrlValuesEncoded(urlCall.res)

\* C7: for every code_verifier, the empty one too, get_oauth_url gives a URL
\* whose code_challenge is the verifier itself for "plain" and
\* gen_s256_code_challenge(verifier) for "S256", and whose
\* code_challenge_method is the method asked for.
C7_PkceCodeChallenge ==
    urlCall.op = "get_oauth_url" =>
        /\ ~urlCall.raised
        /\ UrlParam(urlCall.res, K_code_challenge) =
               IF urlCall.code_challenge_method = Some(V_plain)
               THEN Some(urlCall.code_verifier)
               ELSE Some(GenS256CodeChallenge(urlCall.code_verifier))
        /\ UrlParam(urlCall.res, K_code_challenge_method) = urlCall.code_challenge_method

====
